---- MODULE Spec2Model ----
(***************************************************************************)
(* Tunisia National Parks API: the park/species association layer.        *)
(*                                                                         *)
(* The state is the relational store (tables parks, species and           *)
(* park_species), the upload directories, and the response of the last    *)
(* HTTP request.  Every request handler of main.py is one action: each    *)
(* handler opens its own Session, runs to completion and closes it, so    *)
(* what was committed at the point where the handler returns or raises    *)
(* is what the next request sees.                                         *)
(*                                                                         *)
(* The handlers are translated against the table classes of models.py.    *)
(* Those classes declare no relationship attributes (models.py:52-55,     *)
(* 93, 107) and SpeciesDB names its key species_id, so reading            *)
(* species_db.parks, park.species or species_db.id raises AttributeError, *)
(* which FastAPI answers with 500; a Session closed without commit rolls  *)
(* its pending changes back.                                              *)
(***************************************************************************)
EXTENDS Integers, FiniteSets, Sequences, Bags, TLC

\* ---------------------------------------------------------------- bounds

\* Number of parks the seed script inserts (17 in TUNISIA_PARKS_COMPLETE).
SeedParkCount == 2

\* Number of species the seed script inserts (22 in SPECIES_DATA).
SeedSpeciesCount == 1

\* Largest species primary key the model lets the store hand out: room for
\* one species beyond the seeded ones.
MaxSpeciesId == SeedSpeciesCount + 1

\* Requests the thread pool may run side by side.
MaxRequests == 2

\* Longest park-id list a request body carries as a JSON array.
MaxListLen == 2

\* Longest list of park ids a route request names.
MaxRouteLen == 3

\* Longest "list" the forecast provider answers with.
MaxSlots == 3

\* ------------------------------------------------------------- constants

\* None is a null string value, Absent a request field that was not sent.
\* A null id is 0; a null or absent collection is <<>> and a collection c
\* that is there is <<c>>.
None == "None"
Absent == "Absent"

HTTP_200 == 200
HTTP_201 == 201
HTTP_204 == 204
HTTP_400 == 400
HTTP_401 == 401
HTTP_404 == 404
HTTP_500 == 500
HTTP_503 == 503

\* The range of days get_park_forecast accepts.
MIN_FORECAST_DAYS == 1
MAX_FORECAST_DAYS == 5

\* Calendar dates and times of day of the provider's three-hourly slots, as
\* dt_txt writes them.
SlotDates == {"2024-06-01", "2024-06-02"}
SlotHours == {"09:00:00", "12:00:00"}

SpeciesTypes == {"animal", "plant"}

PARKS_DIR == "parks"
SPECIES_DIR == "species"

\* Ids a request may name: the ids the store can hold.  An id names no row
\* before the seed has run and after the row was deleted.
ParkIdInputs == 1..SeedParkCount
SpeciesIdInputs == 1..MaxSpeciesId

\* Names uuid4 can give a stored file.
FileNames == {"a.jpg"}

\* Names for the runs that follow more than one upload.
ImageNames == FileNames \cup {"b.jpg"}

\* Columns and attributes the table classes declare.
ParkDBFields ==
    {"id", "name", "governorate", "description", "latitude", "longitude",
     "area_km2", "images", "google_maps_url", "hero_image_url",
     "gallery_images", "difficulty_level", "accessibility", "best_months",
     "activities", "facilities", "entrance_fee", "opening_hours",
     "contact_phone", "contact_email", "area_hectares", "elevation_min",
     "elevation_max", "visitor_count_yearly", "average_rating",
     "total_reviews"}

SpeciesDBFields ==
    {"species_id", "name", "scientific_name", "type", "description",
     "threats", "protection_measures", "safety_guidelines", "medicinal_use",
     "toxicity_level", "image_url", "gallery_images", "audio_url",
     "video_url", "conservation_status", "habitat_type", "diet", "lifespan",
     "size", "weight", "best_viewing_months", "activity_time", "rarity"}

\* Columns declared without Optional and without a default: NOT NULL.
ParkDBRequired ==
    {"name", "governorate", "description", "latitude", "longitude",
     "google_maps_url"}

SpeciesDBRequired == {"name", "scientific_name", "type", "description"}

\* Reading an attribute the class does not declare raises AttributeError.
AttributeError(fields, attr) == attr \notin fields

\* ----------------------------------------------------------------- state

VARIABLES
    parks,          \* table parks: id -> [images]
    species,        \* table species: species_id -> [type, image_url]
    park_species,   \* table park_species: a bag of <<park_id, species_id>> rows
    files,          \* upload directories: set of [dir, name, owner]
    last,           \* the last request and its response
    token,          \* the bearer token of the last request (None: none read)
    inflight,       \* requests a handler has begun and not yet answered
    owned           \* tables trails, reviews, sightings: rows [table, park_id, species_id]

vars == <<parks, species, park_species, files, last, token, inflight, owned>>

\* ------------------------------------------------------------- relations

ParkIds == DOMAIN parks
SpeciesIds == DOMAIN species

\* The rows of the link table, as a set of <<park_id, species_id>>.
Links == BagToSet(park_species)

\* The parks a species is linked to, and the species linked to a park.
ParksOf(sid) == {row[1] : row \in {r \in Links : r[2] = sid}}
SpeciesOf(pid) == {row[2] : row \in {r \in Links : r[1] = pid}}

SetMax(S) == CHOOSE m \in S : \A x \in S : x <= m

\* INTEGER PRIMARY KEY without AUTOINCREMENT: the next rowid is max + 1.
NextId(ids) == IF ids = {} THEN 1 ELSE SetMax(ids) + 1

\* The file names a park row lists in its JSON column images.
ImagesOf(pid) ==
    IF parks[pid].images = <<>> THEN {}
    ELSE {parks[pid].images[1][i] : i \in DOMAIN parks[pid].images[1]}

Remove(f, k) == [x \in (DOMAIN f) \ {k} |-> f[x]]
Put(f, k, v) == [x \in (DOMAIN f) \cup {k} |-> IF x = k THEN v ELSE f[x]]

\* ------------------------------------------------------------- responses

Response(op, status) ==
    [op |-> op, status |-> status, sid |-> 0, pid |-> 0,
     type |-> None, image_url |-> Absent, park_ids |-> <<>>, body |-> <<>>,
     repeat |-> FALSE, api_key |-> FALSE, attempts |-> 0]

\* Bearer tokens a request may carry.
Tokens == {"valid", "missing", "undecodable", "no_sub", "unknown_user"}

\* The single in-memory user; its account is not disabled.
fake_admin_user_db == [admin |-> [disabled |-> FALSE]]

\* jwt.decode: the payload of a token that verifies, none (JWTError) for one
\* that does not.
jwt_decode(tok) ==
    CASE tok = "valid"        -> <<[sub |-> "admin"]>>
      [] tok = "unknown_user" -> <<[sub |-> "ghost"]>>
      [] tok = "no_sub"       -> <<[sub |-> None]>>
      [] OTHER                -> <<>>

\* A dependency that trusts every payload that names a subject and does not
\* look the user up.
get_current_user_any_subject(tok) ==
    IF tok # "missing" /\ jwt_decode(tok) # <<>> /\ jwt_decode(tok)[1].sub # None
    THEN HTTP_200 ELSE HTTP_401

\* get_current_user: the user, or 401 for a token that is missing
\* (oauth2_scheme), does not decode, carries no "sub", or names no user of
\* fake_admin_user_db or a disabled one.
get_current_user(tok) ==
    IF tok = "missing" THEN HTTP_401
    ELSE LET payload == jwt_decode(tok)
         IN  IF payload = <<>> THEN HTTP_401
             ELSE IF payload[1].sub = None THEN HTTP_401
             ELSE IF \/ payload[1].sub \notin DOMAIN fake_admin_user_db
                     \/ fake_admin_user_db[payload[1].sub].disabled
                  THEN HTTP_401
                  ELSE HTTP_200

\* Routes that declare Depends(get_current_user).
ProtectedRoutes ==
    {"create_park", "update_park", "delete_park", "upload_park_image",
     "delete_park_image", "create_species", "update_species",
     "delete_species", "upload_species_image", "delete_species_image"}

\* The dependency raises before the handler of a protected route is called.
Unauthorized(op, tok) ==
    /\ get_current_user(tok) = HTTP_401
    /\ token' = tok
    /\ last' = Response(op, HTTP_401)
    /\ UNCHANGED <<parks, species, park_species, files>>

\* The dependency returns the user and the handler of the route is called.
Authenticated ==
    \E tok \in Tokens : get_current_user(tok) = HTTP_200 /\ token' = tok

\* A route without the dependency reads no token.
Anonymous == token' = None

\* A stored file: its directory, its name, and the id of the row it was
\* uploaded for (0 once that row is deleted; the owner is not on disk).
StoredFile(dir, name, owner) == [dir |-> dir, name |-> name, owner |-> owner]

\* delete_file: unlink the file when it exists.
delete_file(fs, name, dir) == {f \in fs : f.dir # dir \/ f.name # name}

\* The files that outlive the rows ids of the table that owns directory dir.
Disown(fs, dir, ids) ==
    {IF f.dir = dir /\ f.owner \in ids THEN [f EXCEPT !.owner = 0] ELSE f :
        f \in fs}

\* Names save_upload_file can return: uuid4 never repeats a name that is
\* stored or that a row still carries.
FreshNames ==
    {n \in ImageNames :
        /\ \A f \in files : f.name # n
        /\ \A s \in SpeciesIds : species[s].image_url # n
        /\ \A p \in ParkIds : n \notin ImagesOf(p)}

\* Columns that accept NULL whatever the model declares.
NotNullUnchecked(required, supplied) == FALSE

\* A NOT NULL column left unset makes the INSERT or UPDATE fail at commit.
NotNullViolation(required, supplied) == required \ supplied # {}

\* A link table declared without its composite primary key.
PrimaryKeyDropped(table, rows) == FALSE

\* The composite primary key (park_id, species_id) of park_species: an INSERT
\* of a row whose key the table already holds fails with IntegrityError.
PrimaryKeyViolation(table, rows) == \E r \in rows : BagIn(r, table)

InsertLinks(table, rows) == table (+) SetToBag(rows)

\* ------------------------------------------------------------------ init

\* on_startup -> init_db -> create_all: empty tables, empty upload directories.
Init ==
    /\ parks = <<>>
    /\ species = <<>>
    /\ park_species = EmptyBag
    /\ files = {}
    /\ last = Response("startup", 0)
    /\ token = None
    /\ inflight = <<>>
    /\ owned = {}

\* ------------------------------------------------------------------ seed

\* SPECIES_DATA, scaled to SeedSpeciesCount entries: the type of the i-th
\* species and the parks its "parks" names resolve to.
SPECIES_DATA ==
    [i \in 1..SeedSpeciesCount |->
        [type |-> IF i % 2 = 1 THEN "animal" ELSE "plant",
         parks |-> {p \in 1..SeedParkCount : p >= i}]]

\* seed_complete_database: clears parks and species (not park_species),
\* inserts the parks and commits, then inserts every species with its links
\* in one transaction, which an IntegrityError rolls back.
seed_complete_database ==
    LET seeded == [i \in 1..SeedSpeciesCount |->
                      [type |-> SPECIES_DATA[i].type, image_url |-> None]]
        rows == {<<p, i>> : p \in 1..SeedParkCount, i \in 1..SeedSpeciesCount}
                  \cap {r \in (1..SeedParkCount) \X (1..SeedSpeciesCount) :
                          r[1] \in SPECIES_DATA[r[2]].parks}
        failed == PrimaryKeyViolation(park_species, rows)
    IN  /\ parks' = [i \in 1..SeedParkCount |-> [images |-> <<>>]]
        /\ species' = IF failed THEN <<>> ELSE seeded
        /\ park_species' = IF failed THEN park_species
                           ELSE InsertLinks(park_species, rows)
        /\ files' = Disown(Disown(files, PARKS_DIR, ParkIds),
                            SPECIES_DIR, SpeciesIds)
        /\ last' = Response("seed_complete_database", 0)

\* ----------------------------------------------------------------- parks

\* create_park builds ParkDB from the six fields of ParkCreate; the NOT NULL
\* column google_maps_url is left unset, so the commit raises IntegrityError.
create_park_supplied ==
    {"name", "governorate", "description", "latitude", "longitude", "area_km2"}

create_park ==
    /\ NotNullViolation(ParkDBRequired, create_park_supplied)
    /\ last' = Response("create_park", HTTP_500)
    /\ UNCHANGED <<parks, species, park_species, files>>

\* delete_park: 404 for an unknown id; else unlinks the park's image files
\* and deletes the park row.  No statement touches park_species, and SQLite
\* does not enforce the foreign keys of the link table.
delete_park(park_id) ==
    IF park_id \notin ParkIds
    THEN /\ last' = [Response("delete_park", HTTP_404) EXCEPT !.pid = park_id]
         /\ UNCHANGED <<parks, species, park_species, files>>
    ELSE LET images == IF parks[park_id].images = <<>> THEN <<>>
                       ELSE parks[park_id].images[1]
             names == {images[i] : i \in DOMAIN images}
             kept == {f \in files : f.dir # PARKS_DIR \/ f.name \notin names}
         IN  /\ files' = Disown(kept, PARKS_DIR, {park_id})
             /\ parks' = Remove(parks, park_id)
             /\ last' = [Response("delete_park", HTTP_204) EXCEPT !.pid = park_id]
             /\ UNCHANGED <<species, park_species>>

\* update_park: 404 for an unknown id; else sets the fields of the body and
\* commits.  ParkUpdate has no images field; a required column sent as null
\* fails the commit.  name is the body's name: Absent, None or a string.
update_park(park_id, name) ==
    /\ last' = [Response("update_park",
                         IF park_id \notin ParkIds THEN HTTP_404
                         ELSE IF NotNullViolation(ParkDBRequired,
                                   {c \in ParkDBRequired : c # "name" \/ name # None})
                              THEN HTTP_500
                              ELSE HTTP_200)
                  EXCEPT !.pid = park_id]
    /\ UNCHANGED <<parks, species, park_species, files>>

\* ----------------------------------------------------------- park images

\* upload_park_image: 404 for an unknown id; save_upload_file validates
\* (400), writes (500 on failure, the partial file removed) and returns the
\* new name.  A row whose images is NULL gets the new list [filename]; a row
\* that has a list gets filename appended to the loaded list in place, which
\* the plain JSON column does not track, so the commit writes nothing.
upload_park_image(park_id, outcome, filename) ==
    \/ /\ park_id \notin ParkIds
       /\ last' = [Response("upload_park_image", HTTP_404)
                     EXCEPT !.pid = park_id]
       /\ UNCHANGED <<parks, species, park_species, files>>
    \/ /\ park_id \in ParkIds
       /\ CASE outcome = "invalid" ->
                 /\ last' = [Response("upload_park_image", HTTP_400)
                               EXCEPT !.pid = park_id]
                 /\ UNCHANGED <<parks, files>>
            [] outcome = "io_error" ->
                 /\ last' = [Response("upload_park_image", HTTP_500)
                               EXCEPT !.pid = park_id]
                 /\ UNCHANGED <<parks, files>>
            [] outcome = "saved" ->
                 /\ filename \in FreshNames
                 /\ files' = files \cup {StoredFile(PARKS_DIR, filename, park_id)}
                 /\ parks' = IF parks[park_id].images = <<>>
                             THEN [parks EXCEPT ![park_id].images = <<<<filename>>>>]
                             ELSE parks
                 /\ last' = [Response("upload_park_image", HTTP_201)
                               EXCEPT !.pid = park_id]
       /\ UNCHANGED <<species, park_species>>

\* delete_park_image: 404 for an unknown park or a name the row does not
\* list; else removes the name from the loaded list in place (not tracked,
\* so the row keeps it), commits and unlinks the file.
delete_park_image(park_id, filename) ==
    IF park_id \notin ParkIds \/ filename \notin ImagesOf(park_id)
    THEN /\ last' = [Response("delete_park_image", HTTP_404)
                       EXCEPT !.pid = park_id]
         /\ UNCHANGED <<parks, species, park_species, files>>
    ELSE /\ files' = delete_file(files, filename, PARKS_DIR)
         /\ last' = [Response("delete_park_image", HTTP_204)
                       EXCEPT !.pid = park_id]
         /\ UNCHANGED <<parks, species, park_species>>

\* --------------------------------------------------------------- species

\* The species a SELECT with the optional type filter returns.
SelectSpecies(type) ==
    {s \in SpeciesIds : type = None \/ species[s].type = type}

\* list_species: the comprehension over species_db reads s.parks when park_id
\* is given, and the response reads s.id, for the first row selected; with
\* no row selected both loops are empty and the answer is [].
list_species(type, park_id) ==
    LET species_db == SelectSpecies(type)
        raises == species_db # {}
                  /\ \/ park_id # 0 /\ AttributeError(SpeciesDBFields, "parks")
                     \/ AttributeError(SpeciesDBFields, "id")
        resp == [Response("list_species",
                          IF raises THEN HTTP_500 ELSE HTTP_200)
                   EXCEPT !.type = type, !.pid = park_id,
                          !.body = IF raises THEN <<>> ELSE <<{}>>]
    IN  /\ raises \/ species_db = {}
        /\ last' = resp
        /\ UNCHANGED <<parks, species, park_species, files>>

\* get_species: 404 for an unknown id; else the response reads s.id.
get_species(species_id) ==
    /\ species_id \in SpeciesIds => AttributeError(SpeciesDBFields, "id")
    /\ last' = [Response("get_species",
                         IF species_id \in SpeciesIds THEN HTTP_500 ELSE HTTP_404)
                  EXCEPT !.sid = species_id]
    /\ UNCHANGED <<parks, species, park_species, files>>

\* list_species_for_park: 404 for an unknown park; else reads park.species.
list_species_for_park(park_id) ==
    /\ park_id \in ParkIds => AttributeError(ParkDBFields, "species")
    /\ last' = [Response("list_species_for_park",
                         IF park_id \in ParkIds THEN HTTP_500 ELSE HTTP_404)
                  EXCEPT !.pid = park_id]
    /\ UNCHANGED <<parks, species, park_species, files>>

\* The rows create_species has added to park_species when it ends.  The row
\* for the first listed park that exists is built from species_db.id, which
\* raises before session.add; a list with no existing park adds nothing.
create_species_links(table, species_id, park_ids) == table

\* create_species: inserts and commits the species row, then walks park_ids;
\* the handler raises either in that loop or, when no listed park exists,
\* while it builds the response from species_db.id.
create_species(type, park_ids) ==
    /\ ~NotNullViolation(SpeciesDBRequired,
                         {"name", "type", "scientific_name", "description"})
    /\ AttributeError(SpeciesDBFields, "id")
    /\ NextId(SpeciesIds) <= MaxSpeciesId
    /\ LET sid == NextId(SpeciesIds)
       IN  /\ species' = Put(species, sid, [type |-> type, image_url |-> None])
           /\ park_species' = create_species_links(park_species, sid, park_ids)
           /\ last' = [Response("create_species", HTTP_500)
                         EXCEPT !.sid = sid, !.type = type,
                                !.park_ids = <<park_ids>>]
    /\ UNCHANGED <<parks, files>>

\* A park-list diff that works on the link rows but tests the removal the
\* wrong way round: it drops the links that are requested.
update_species_links_inverted(table, species_id, new_ids) ==
    LET current == {r[1] : r \in {x \in BagToSet(table) : x[2] = species_id}}
        kept == current \ new_ids
        added == (new_ids \ current) \cap ParkIds
    IN  SetToBag({r \in BagToSet(table) : r[2] # species_id}
                 \cup {<<p, species_id>> : p \in kept \cup added})

\* A park-list diff that forgets to restrict the removal to the species: it
\* drops the rows of every species for the parks that are not requested.
update_species_links_sweeping(table, species_id, new_ids) ==
    LET kept == {r \in BagToSet(table) : r[1] \in new_ids}
        current == {r[1] : r \in {x \in kept : x[2] = species_id}}
        added == (new_ids \ current) \cap ParkIds
    IN  SetToBag(kept \cup {<<p, species_id>> : p \in added})

\* The table park_species when lines 735-746 of update_species end: the
\* read of species_db.parks raises before any row is removed or added.
update_species_links(table, species_id, new_ids) == table

\* An update that reads a body without park_ids as an empty park list: it
\* sets the simple fields and removes every link of the species.
update_species_unlinking(species_id, type, image_url, park_ids) ==
    /\ species_id \in SpeciesIds
    /\ park_ids = <<>>
    /\ species' = [species EXCEPT ![species_id].type =
                       IF type \in SpeciesTypes THEN type ELSE @]
    /\ park_species' = SetToBag({r \in BagToSet(park_species) : r[2] # species_id})
    /\ last' = [Response("update_species", HTTP_500)
                  EXCEPT !.sid = species_id, !.type = type,
                         !.image_url = image_url]
    /\ UNCHANGED <<parks, files>>

\* update_species: 404 for an unknown id.  With park_ids in the body the
\* handler raises at species_db.parks before its commit, so the simple fields
\* it set are rolled back too.  Without park_ids it commits the simple fields
\* (a null type violates NOT NULL and fails the commit) and raises while
\* building the response.
update_species(species_id, type, image_url, park_ids) ==
    \/ /\ species_id \notin SpeciesIds
       /\ last' = [Response("update_species", HTTP_404)
                     EXCEPT !.sid = species_id]
       /\ UNCHANGED <<parks, species, park_species, files>>
    \/ /\ species_id \in SpeciesIds
       /\ park_ids # <<>>
       /\ AttributeError(SpeciesDBFields, "parks")
       /\ park_species' = update_species_links(park_species, species_id, park_ids[1])
       /\ last' = [Response("update_species", HTTP_500)
                     EXCEPT !.sid = species_id, !.type = type,
                            !.image_url = image_url,
                            !.park_ids = park_ids,
                            !.repeat = /\ last.op = "update_species"
                                       /\ last.sid = species_id
                                       /\ last.type = type
                                       /\ last.image_url = image_url
                                       /\ last.park_ids = park_ids]
       /\ UNCHANGED <<parks, species, files>>
    \/ /\ species_id \in SpeciesIds
       /\ park_ids = <<>>
       /\ AttributeError(SpeciesDBFields, "id")
       /\ LET row == species[species_id]
              set == [type |-> IF type = Absent THEN row.type ELSE type,
                      image_url |-> IF image_url = Absent THEN row.image_url
                                    ELSE image_url]
              supplied == {c \in SpeciesDBRequired : c # "type" \/ set.type # None}
          IN  species' = IF NotNullViolation(SpeciesDBRequired, supplied)
                         THEN species
                         ELSE [species EXCEPT ![species_id] = set]
       /\ last' = [Response("update_species", HTTP_500)
                     EXCEPT !.sid = species_id, !.type = type,
                            !.image_url = image_url]
       /\ UNCHANGED <<parks, park_species, files>>

\* update_species as the thread pool runs it next to other requests, for a
\* body with park_ids.  First step: session.get answers 404 for an unknown
\* id; else the handler holds the row, with the links of the species at that
\* moment noted beside the request.
update_species_begin(r, species_id, park_ids) ==
    \/ /\ species_id \notin SpeciesIds
       /\ last' = [Response("update_species", HTTP_404)
                     EXCEPT !.sid = species_id]
       /\ UNCHANGED inflight
    \/ /\ species_id \in SpeciesIds
       /\ inflight' = Put(inflight, r,
                          [sid |-> species_id, park_ids |-> park_ids,
                           current_ids |-> ParksOf(species_id)])
       /\ UNCHANGED last

\* Second step: the read of species_db.parks raises, the session is rolled
\* back and the request is answered 500.  No lock is taken and no version is
\* compared in either step.
update_species_end(r) ==
    LET request == inflight[r]
    IN  /\ AttributeError(SpeciesDBFields, "parks")
        /\ park_species' = update_species_links(park_species, request.sid,
                                                request.park_ids)
        /\ last' = [Response("update_species", HTTP_500)
                      EXCEPT !.sid = request.sid,
                             !.park_ids = <<request.park_ids>>]
        /\ inflight' = Remove(inflight, r)

\* A delete that answers 204 for an id that names no species.
delete_species_silent(species_id) ==
    IF species_id \notin SpeciesIds
    THEN /\ last' = [Response("delete_species", HTTP_204)
                       EXCEPT !.sid = species_id]
         /\ UNCHANGED <<parks, species, park_species, files>>
    ELSE /\ files' = Disown(IF species[species_id].image_url # None
                            THEN delete_file(files, species[species_id].image_url,
                                             SPECIES_DIR)
                            ELSE files,
                            SPECIES_DIR, {species_id})
         /\ species' = Remove(species, species_id)
         /\ last' = [Response("delete_species", HTTP_204)
                       EXCEPT !.sid = species_id]
         /\ UNCHANGED <<parks, park_species>>

\* delete_species: 404 for an unknown id; else unlinks the image file and
\* deletes the species row.  No statement touches park_species.
delete_species(species_id) ==
    IF species_id \notin SpeciesIds
    THEN /\ last' = [Response("delete_species", HTTP_404)
                       EXCEPT !.sid = species_id]
         /\ UNCHANGED <<parks, species, park_species, files>>
    ELSE /\ files' = Disown(IF species[species_id].image_url # None
                            THEN delete_file(files, species[species_id].image_url,
                                             SPECIES_DIR)
                            ELSE files,
                            SPECIES_DIR, {species_id})
         /\ species' = Remove(species, species_id)
         /\ last' = [Response("delete_species", HTTP_204)
                       EXCEPT !.sid = species_id]
         /\ UNCHANGED <<parks, park_species>>

\* -------------------------------------------------------- species images

\* upload_species_image: 404 for an unknown id; unlinks the old image file,
\* then save_upload_file validates (400), writes (500 on failure, the partial
\* file removed) and returns the new name, which is committed as image_url.
upload_species_image(species_id, outcome, filename) ==
    \/ /\ species_id \notin SpeciesIds
       /\ last' = [Response("upload_species_image", HTTP_404)
                     EXCEPT !.sid = species_id]
       /\ UNCHANGED <<parks, species, park_species, files>>
    \/ /\ species_id \in SpeciesIds
       /\ LET old == species[species_id].image_url
              kept == IF old # None THEN delete_file(files, old, SPECIES_DIR) ELSE files
          IN  CASE outcome = "invalid" ->
                     /\ files' = kept
                     /\ species' = species
                     /\ last' = [Response("upload_species_image", HTTP_400)
                                   EXCEPT !.sid = species_id]
                [] outcome = "io_error" ->
                     /\ files' = kept
                     /\ species' = species
                     /\ last' = [Response("upload_species_image", HTTP_500)
                                   EXCEPT !.sid = species_id]
                [] outcome = "saved" ->
                     /\ filename \in FreshNames
                     /\ files' = kept \cup {StoredFile(SPECIES_DIR, filename,
                                                        species_id)}
                     /\ species' = [species EXCEPT ![species_id].image_url = filename]
                     /\ last' = [Response("upload_species_image", HTTP_201)
                                   EXCEPT !.sid = species_id]
       /\ UNCHANGED <<parks, park_species>>

\* delete_species_image: 404 for an unknown id or a species without image;
\* else unlinks the file and commits image_url = NULL.
delete_species_image(species_id) ==
    IF species_id \notin SpeciesIds \/ species[species_id].image_url = None
    THEN /\ last' = [Response("delete_species_image", HTTP_404)
                       EXCEPT !.sid = species_id]
         /\ UNCHANGED <<parks, species, park_species, files>>
    ELSE /\ files' = delete_file(files, species[species_id].image_url,
                                 SPECIES_DIR)
         /\ species' = [species EXCEPT ![species_id].image_url = None]
         /\ last' = [Response("delete_species_image", HTTP_204)
                       EXCEPT !.sid = species_id]
         /\ UNCHANGED <<parks, park_species>>

\* --------------------------------------------------------------- weather

\* What one call of the provider can come to.
ProviderOutcomes == {"ok", "unreachable", "error_status", "malformed"}

\* A client that asks the provider a second time when the first call fails.
get_weather_for_location_retrying(api_key, outcome) ==
    IF ~api_key THEN [error |-> TRUE, attempts |-> 0]
    ELSE IF outcome = "ok" THEN [error |-> FALSE, attempts |-> 1]
    ELSE [error |-> TRUE, attempts |-> 2]

\* get_weather_for_location: without OPENWEATHER_API_KEY an error dict and no
\* request; else one client.get, and an error dict for httpx.HTTPError
\* (connection, timeout, raise_for_status) or any other exception.
get_weather_for_location(api_key, outcome) ==
    IF ~api_key THEN [error |-> TRUE, attempts |-> 0]
    ELSE [error |-> outcome # "ok", attempts |-> 1]

\* get_current_weather: 503 when the result carries "error".
get_current_weather(api_key, outcome) ==
    LET weather_data == get_weather_for_location(api_key, outcome)
    IN  /\ last' = [Response("get_current_weather",
                             IF weather_data.error THEN HTTP_503 ELSE HTTP_200)
                      EXCEPT !.api_key = api_key,
                             !.attempts = weather_data.attempts]
        /\ UNCHANGED <<parks, species, park_species, files>>

\* get_park_weather: 404 for an unknown park before the provider is called;
\* else as get_current_weather at the park's coordinates.
get_park_weather(park_id, api_key, outcome) ==
    LET weather_data == get_weather_for_location(api_key, outcome)
    IN  /\ last' = IF park_id \notin ParkIds
                   THEN [Response("get_park_weather", HTTP_404)
                           EXCEPT !.pid = park_id, !.api_key = api_key]
                   ELSE [Response("get_park_weather",
                                  IF weather_data.error THEN HTTP_503 ELSE HTTP_200)
                           EXCEPT !.pid = park_id,
                                  !.api_key = api_key,
                                  !.attempts = weather_data.attempts]
        /\ UNCHANGED <<parks, species, park_species, files>>

\* -------------------------------------------------------------- forecast

RECURSIVE forecast_loop(_, _, _, _, _)

\* item["dt_txt"].split(): the date and the time of day of a slot.
split(dt_txt) == <<dt_txt.date, dt_txt.hour>>

\* A condition that takes every noon slot, also of a date already taken.
takes_slot_of_any_date(date, hour, seen_dates) == hour = "12:00:00"

\* The condition under which the loop appends a slot: its date has not been
\* taken and its time of day contains "12:00:00", which among SlotHours is
\* to be that time.
takes_slot(date, hour, seen_dates) ==
    date \notin seen_dates /\ hour = "12:00:00"

\* The loop over data["list"] from its k-th item on: append the slot when
\* takes_slot, then break once len(forecasts) >= days.
forecast_loop(list, k, forecasts, seen_dates, days) ==
    IF k > Len(list) THEN forecasts
    ELSE LET date == split(list[k].dt_txt)[1]
             hour == split(list[k].dt_txt)[2]
             take == takes_slot(date, hour, seen_dates)
             appended == IF take THEN Append(forecasts, [date |-> date])
                         ELSE forecasts
             seen == IF take THEN seen_dates \cup {date} ELSE seen_dates
         IN  IF Len(appended) >= days THEN appended
             ELSE forecast_loop(list, k + 1, appended, seen, days)

\* get_weather_forecast: without OPENWEATHER_API_KEY an error dict and no
\* request; else one client.get, an error dict for any exception, and
\* otherwise the forecasts the loop collects.
get_weather_forecast(api_key, outcome, list, days) ==
    IF ~api_key THEN [error |-> TRUE, attempts |-> 0, forecasts |-> <<>>]
    ELSE IF outcome # "ok"
    THEN [error |-> TRUE, attempts |-> 1, forecasts |-> <<>>]
    ELSE [error |-> FALSE, attempts |-> 1,
          forecasts |-> forecast_loop(list, 1, <<>>, {}, days)]

\* get_park_forecast up to its await: 400 for days outside 1..5 before the
\* session opens; 404 for an unknown park; else the request goes to the
\* provider and the handler waits, holding the park it has read; status 0
\* stands for a request not yet answered.  The body keeps the days asked for.
get_park_forecast_begin(park_id, days) ==
    LET asked == [days |-> days, list |-> <<>>, forecasts |-> <<>>]
    IN  IF days < MIN_FORECAST_DAYS \/ days > MAX_FORECAST_DAYS
        THEN /\ last' = [Response("get_park_forecast", HTTP_400)
                           EXCEPT !.pid = park_id, !.body = <<asked>>]
             /\ UNCHANGED inflight
        ELSE IF park_id \notin ParkIds
        THEN /\ last' = [Response("get_park_forecast", HTTP_404)
                           EXCEPT !.pid = park_id, !.body = <<asked>>]
             /\ UNCHANGED inflight
        ELSE /\ last' = [Response("get_park_forecast", 0)
                           EXCEPT !.pid = park_id, !.body = <<asked>>]
             /\ inflight' = Put(inflight, 1,
                                [op |-> "get_park_forecast",
                                 park_id |-> park_id, days |-> days])

\* get_park_forecast from its await on: 503 when the result carries "error",
\* else the forecast.  For a 200 the body keeps the list the provider gave
\* next to the forecasts answered.
get_park_forecast_end(api_key, outcome, list) ==
    LET request == inflight[1]
        asked == [days |-> request.days, list |-> <<>>, forecasts |-> <<>>]
        forecast_data == get_weather_forecast(api_key, outcome, list,
                                              request.days)
    IN  /\ last' =
             IF forecast_data.error
             THEN [Response("get_park_forecast", HTTP_503)
                     EXCEPT !.pid = request.park_id, !.body = <<asked>>,
                            !.api_key = api_key,
                            !.attempts = forecast_data.attempts]
             ELSE [Response("get_park_forecast", HTTP_200)
                     EXCEPT !.pid = request.park_id,
                            !.body = <<[asked EXCEPT
                                          !.list = list,
                                          !.forecasts = forecast_data.forecasts]>>,
                            !.api_key = api_key,
                            !.attempts = forecast_data.attempts]
        /\ inflight' = Remove(inflight, 1)

\* ------------------------------------------------------------------ maps

\* Route points whose order is the 0-based index of the loop.
route_points_from_zero(park_ids) ==
    [k \in 1..Len(park_ids) |->
        LET i == k - 1 IN [order |-> i, park_id |-> park_ids[k]]]

\* The RoutePoint list the loop of plan_multi_park_route appends to: for the
\* i-th id of enumerate(park_ids), i counted from 0, a point with order i + 1.
route_points_of(park_ids) ==
    [k \in 1..Len(park_ids) |->
        LET i == k - 1 IN [order |-> i + 1, park_id |-> park_ids[k]]]

\* plan_multi_park_route: 400 for fewer than two ids; 404 at the first id
\* that names no park; else the points, their number, and the stops of the
\* Google Maps link: route_points[0], route_points[-1] and route_points[1:-1].
\* A stop stands for the coordinates of its park.
plan_multi_park_route(park_ids) ==
    /\ last' =
         IF Len(park_ids) < 2
         THEN [Response("plan_multi_park_route", HTTP_400)
                 EXCEPT !.park_ids = <<park_ids>>]
         ELSE IF \E k \in DOMAIN park_ids : park_ids[k] \notin ParkIds
         THEN [Response("plan_multi_park_route", HTTP_404)
                 EXCEPT !.park_ids = <<park_ids>>]
         ELSE LET route_points == route_points_of(park_ids)
                  middle == SubSeq(route_points, 2, Len(route_points) - 1)
              IN  [Response("plan_multi_park_route", HTTP_200)
                     EXCEPT !.park_ids = <<park_ids>>,
                            !.body = <<[total_parks |-> Len(route_points),
                                        route_points |-> route_points,
                                        origin |-> route_points[1].park_id,
                                        destination |->
                                            route_points[Len(route_points)].park_id,
                                        waypoints |->
                                            [k \in DOMAIN middle |->
                                                middle[k].park_id]]>>]
    /\ UNCHANGED <<parks, species, park_species, files>>

\* ---------------------------------------------------------- owned entities

\* The tables whose rows carry the key of one park.
OwnedTables == {"trails", "reviews"}

\* A row of trails or reviews for a park; species_id is the second owner of
\* a sightings row and 0 for the other tables.
OwnedRow(table, park_id, species_id) ==
    [table |-> table, park_id |-> park_id, species_id |-> species_id]

\* The routes of routers/trails and routers/reviews that add a row for a
\* park: 404 for an unknown park, else the row is inserted with the key of
\* that park.
create_owned(table, park_id) ==
    IF park_id \notin ParkIds
    THEN /\ last' = [Response("create_owned", HTTP_404) EXCEPT !.pid = park_id]
         /\ UNCHANGED owned
    ELSE /\ owned' = owned \cup {OwnedRow(table, park_id, 0)}
         /\ last' = [Response("create_owned", HTTP_201) EXCEPT !.pid = park_id]

\* ------------------------------------------------------------------ next

ParkIdSets == SUBSET ParkIdInputs
UploadOutcomes == {"saved", "invalid", "io_error"}

\* The HTTP handlers run to completion: no update_species is left between
\* its steps, and no handler of main.py writes trails, reviews or sightings.
Atomic == UNCHANGED <<inflight, owned>>

Seed == seed_complete_database /\ Anonymous /\ Atomic
Rejected ==
    /\ \E op \in ProtectedRoutes, tok \in Tokens : Unauthorized(op, tok)
    /\ Atomic
\* The rejections of requests that carry no Authorization header.
RejectedAnonymous ==
    /\ \E op \in ProtectedRoutes : Unauthorized(op, "missing")
    /\ Atomic
CreatePark == Authenticated /\ create_park /\ Atomic
UpdatePark ==
    /\ Authenticated
    /\ \E p \in ParkIdInputs, name \in {Absent, None, "name"} : update_park(p, name)
    /\ Atomic
DeletePark == Authenticated /\ (\E p \in ParkIdInputs : delete_park(p)) /\ Atomic
UploadParkImage ==
    /\ Authenticated
    /\ \E p \in ParkIdInputs, outcome \in UploadOutcomes, f \in FileNames :
          upload_park_image(p, outcome, f)
    /\ Atomic
DeleteParkImage ==
    /\ Authenticated
    /\ \E p \in ParkIdInputs, f \in FileNames : delete_park_image(p, f)
    /\ Atomic
ListSpecies ==
    /\ Anonymous
    /\ \E t \in SpeciesTypes \cup {None}, p \in ParkIdInputs \cup {0} :
          list_species(t, p)
    /\ Atomic
GetSpecies == Anonymous /\ (\E s \in SpeciesIdInputs : get_species(s)) /\ Atomic
ListSpeciesForPark ==
    Anonymous /\ (\E p \in ParkIdInputs : list_species_for_park(p)) /\ Atomic
CreateSpecies ==
    /\ Authenticated
    /\ \E t \in SpeciesTypes, P \in ParkIdSets : create_species(t, P)
    /\ Atomic

\* Bodies of a PUT /api/species/{id} as <<type, image_url, park_ids>>: no
\* field, a type (null included), or park_ids with or without a type.  The
\* handler of an unknown id returns before it reads the body.
SpeciesUpdateBodies(species_id) ==
    IF species_id \notin SpeciesIds THEN {<<Absent, Absent, <<>>>>}
    ELSE ((SpeciesTypes \cup {None, Absent}) \X {Absent} \X {<<>>})
         \cup ({Absent, "plant"} \X {Absent} \X {<<Q>> : Q \in ParkIdSets})

UpdateSpecies ==
    /\ Authenticated
    /\ \E s \in SpeciesIdInputs :
          \E body \in SpeciesUpdateBodies(s) :
              update_species(s, body[1], body[2], body[3])
    /\ Atomic
DeleteSpecies ==
    Authenticated /\ (\E s \in SpeciesIdInputs : delete_species(s)) /\ Atomic
UploadSpeciesImage ==
    /\ Authenticated
    /\ \E s \in SpeciesIdInputs, outcome \in UploadOutcomes, f \in FileNames :
          upload_species_image(s, outcome, f)
    /\ Atomic
DeleteSpeciesImage ==
    Authenticated /\ (\E s \in SpeciesIdInputs : delete_species_image(s)) /\ Atomic
GetCurrentWeather ==
    /\ Anonymous
    /\ \E api_key \in BOOLEAN, outcome \in ProviderOutcomes :
          get_current_weather(api_key, outcome)
    /\ Atomic
GetParkWeather ==
    /\ Anonymous
    /\ \E p \in ParkIdInputs, api_key \in BOOLEAN, outcome \in ProviderOutcomes :
          get_park_weather(p, api_key, outcome)
    /\ Atomic

\* The association layer: the seed script and the park and species routes
\* that read or write species and their links.
Next ==
    \/ Seed
    \/ RejectedAnonymous
    \/ CreatePark
    \/ DeletePark
    \/ ListSpecies
    \/ GetSpecies
    \/ ListSpeciesForPark
    \/ CreateSpecies
    \/ UpdateSpecies
    \/ DeleteSpecies
    \/ UploadSpeciesImage
    \/ DeleteSpeciesImage

Spec == Init /\ [][Next]_vars

\* The routes that declare Depends(get_current_user), with every kind of
\* token, over the stores the seed script and these routes produce.  The
\* handler of create_species, which leaves rows without links behind, is
\* exercised by Spec.
NextAuth ==
    \/ Seed
    \/ Rejected
    \/ CreatePark
    \/ UpdatePark
    \/ DeletePark
    \/ UploadParkImage
    \/ DeleteParkImage
    \/ UpdateSpecies
    \/ DeleteSpecies
    \/ UploadSpeciesImage
    \/ DeleteSpeciesImage

SpecAuth == Init /\ [][NextAuth]_vars

\* The weather routes over the parks the seed script and the park routes
\* leave.
NextWeather ==
    \/ Seed
    \/ CreatePark
    \/ UpdatePark
    \/ DeletePark
    \/ GetCurrentWeather
    \/ GetParkWeather

SpecWeather == Init /\ [][NextWeather]_vars

\* update_species requests whose steps interleave, over seeded stores.
UpdateSpeciesBegin ==
    /\ Authenticated
    /\ \E r \in (1..MaxRequests) \ DOMAIN inflight, s \in SpeciesIdInputs,
          P \in ParkIdSets :
          update_species_begin(r, s, P)
    /\ UNCHANGED <<parks, species, park_species, files, owned>>
UpdateSpeciesEnd ==
    /\ Authenticated
    /\ \E r \in DOMAIN inflight : update_species_end(r)
    /\ UNCHANGED <<parks, species, files, owned>>

NextConcurrent ==
    \/ Seed
    \/ DeletePark
    \/ UpdateSpeciesBegin
    \/ UpdateSpeciesEnd

SpecConcurrent == Init /\ [][NextConcurrent]_vars

\* Bodies of a PUT /api/species/{id} that set image_url to null, or send an
\* empty park list.
SpeciesImageBodies(species_id) ==
    IF species_id \notin SpeciesIds THEN {<<Absent, Absent, <<>>>>}
    ELSE {<<Absent, None, <<>>>>, <<Absent, Absent, <<{}>>>>}

\* Uploads whose stored names are drawn from ImageNames, so that a record
\* can receive a second file while its first is still stored.
UploadParkImages ==
    /\ Authenticated
    /\ \E p \in ParkIdInputs, outcome \in UploadOutcomes, f \in ImageNames :
          upload_park_image(p, outcome, f)
    /\ Atomic
DeleteParkImages ==
    /\ Authenticated
    /\ \E p \in ParkIdInputs, f \in ImageNames : delete_park_image(p, f)
    /\ Atomic
UploadSpeciesImages ==
    /\ Authenticated
    /\ \E s \in SpeciesIdInputs, outcome \in UploadOutcomes, f \in ImageNames :
          upload_species_image(s, outcome, f)
    /\ Atomic
UpdateSpeciesImageUrl ==
    /\ Authenticated
    /\ \E s \in SpeciesIdInputs :
          \E body \in SpeciesImageBodies(s) :
              update_species(s, body[1], body[2], body[3])
    /\ Atomic

\* The image routes and the routes that delete the records that own images.
NextImages ==
    \/ Seed
    \/ DeletePark
    \/ UploadParkImages
    \/ DeleteParkImages
    \/ UpdateSpeciesImageUrl
    \/ DeleteSpecies
    \/ UploadSpeciesImages
    \/ DeleteSpeciesImage

SpecImages == Init /\ [][NextImages]_vars

CreateOwned ==
    /\ Authenticated
    /\ \E table \in OwnedTables, p \in ParkIdInputs : create_owned(table, p)
    /\ UNCHANGED <<parks, species, park_species, files, inflight>>

\* Creations and deletions of parks and species over stores that hold trails
\* and reviews.
NextOwned ==
    \/ Seed
    \/ CreatePark
    \/ DeletePark
    \/ CreateSpecies
    \/ DeleteSpecies
    \/ CreateOwned

SpecOwned == Init /\ [][NextOwned]_vars

\* Park-id lists as a body carries them: JSON arrays, in which an id may
\* occur more than once.
ParkIdLists ==
    UNION {[1..n -> ParkIdInputs] : n \in 0..MaxListLen}

\* The ids a list names: the loop over species_in.park_ids in create_species
\* and set(data["park_ids"] or []) in update_species.
ListToSet(list) == {list[i] : i \in DOMAIN list}

\* A body for POST /api/species or PUT /api/species/{id} has been parsed and
\* its handler has not run yet; park_ids is absent or a list.  A POST has no
\* id in its path (sid is fixed) and SpeciesCreate.park_ids defaults to [].
ReceiveSpeciesBody ==
    /\ inflight = <<>>
    /\ \E op \in {"create_species", "update_species"}, s \in SpeciesIdInputs,
          park_ids \in {<<>>} \cup {<<list>> : list \in ParkIdLists} :
          /\ op = "create_species" => (s = 1 /\ park_ids # <<>>)
          /\ inflight' = Put(inflight, 1,
                             [op |-> op, sid |-> s, park_ids |-> park_ids])
    /\ UNCHANGED <<parks, species, park_species, files, last, token, owned>>
CreateSpeciesFromList ==
    /\ Authenticated
    /\ \E r \in DOMAIN inflight :
          /\ inflight[r].op = "create_species"
          /\ create_species("animal", ListToSet(inflight[r].park_ids[1]))
          /\ inflight' = Remove(inflight, r)
    /\ UNCHANGED owned
UpdateSpeciesFromList ==
    /\ Authenticated
    /\ \E r \in DOMAIN inflight :
          /\ inflight[r].op = "update_species"
          /\ update_species(inflight[r].sid, Absent, Absent,
                            IF inflight[r].park_ids = <<>> THEN <<>>
                            ELSE <<ListToSet(inflight[r].park_ids[1])>>)
          /\ inflight' = Remove(inflight, r)
    /\ UNCHANGED owned

\* create_species and update_species for bodies whose park-id lists may
\* repeat an id, over seeded stores.
NextLists ==
    \/ Seed
    \/ DeleteSpecies
    \/ ReceiveSpeciesBody
    \/ CreateSpeciesFromList
    \/ UpdateSpeciesFromList

SpecLists == Init /\ [][NextLists]_vars

\* Route requests: lists of park ids in visiting order.
RouteRequests == UNION {[1..n -> ParkIdInputs] : n \in 0..MaxRouteLen}

PlanMultiParkRoute ==
    /\ Anonymous
    /\ \E park_ids \in RouteRequests : plan_multi_park_route(park_ids)
    /\ Atomic

\* The route planner over the parks the seed script and delete_park leave.
NextRoute ==
    \/ Seed
    \/ DeletePark
    \/ PlanMultiParkRoute

SpecRoute == Init /\ [][NextRoute]_vars

\* Values of the days query parameter, on both sides of the accepted range.
DaysInputs == (MIN_FORECAST_DAYS - 1)..(MAX_FORECAST_DAYS + 1)

\* Lists the provider may answer with: slots in any order of date and hour.
ForecastLists ==
    LET Slots == {[dt_txt |-> [date |-> d, hour |-> h]] :
                     d \in SlotDates, h \in SlotHours}
    IN  UNION {[1..n -> Slots] : n \in 0..MaxSlots}

GetParkForecastBegin ==
    /\ Anonymous
    /\ inflight = <<>>
    /\ \E p \in ParkIdInputs, days \in DaysInputs :
          get_park_forecast_begin(p, days)
    /\ UNCHANGED <<parks, species, park_species, files, owned>>

GetParkForecastEnd ==
    /\ Anonymous
    /\ 1 \in DOMAIN inflight
    /\ \E api_key \in BOOLEAN, outcome \in ProviderOutcomes,
          list \in ForecastLists :
          get_park_forecast_end(api_key, outcome, list)
    /\ UNCHANGED <<parks, species, park_species, files, owned>>

\* The forecast route over the parks the seed script and delete_park leave.
NextForecast ==
    \/ Seed
    \/ DeletePark
    \/ GetParkForecastBegin
    \/ GetParkForecastEnd

SpecForecast == Init /\ [][NextForecast]_vars

\* ---------------------------------------------------------------- claims

\* The request the last response answers named park_ids.
ParkIdsSent == last.park_ids # <<>>
ParkIdsOfRequest == last.park_ids[1]

\* The last request went to route op and passed authentication, so the
\* handler of the route ran.
Ran(op) == last.op = op /\ last.status # HTTP_401

\* C1: after update_species(S, park_ids = P) on an existing species S, the
\* parks linked to S are exactly the ids of P that name an existing park.
C1_UpdateSetsLinksToValidSubset ==
    (Ran("update_species") /\ last.sid \in SpeciesIds /\ ParkIdsSent)
        => ParksOf(last.sid) = ParkIdsOfRequest \cap ParkIds

\* C2: create_species with a park-id list answers with success, persists the
\* species and links it to exactly the listed ids that name an existing park.
C2_CreateLinksValidSubset ==
    Ran("create_species")
        => /\ last.status = HTTP_201
           /\ last.sid \in SpeciesIds
           /\ ParksOf(last.sid) = ParkIdsOfRequest \cap ParkIds

\* C3: after delete_species(S) has succeeded no row of park_species
\* references S.
C3_DeleteSpeciesRemovesLinks ==
    (Ran("delete_species") /\ last.status = HTTP_204)
        => \A r \in Links : r[2] # last.sid

\* Every link row refers to a park that exists and a species that exists.
ReferentialIntegrity ==
    \A r \in Links : r[1] \in ParkIds /\ r[2] \in SpeciesIds

CrudRoutes ==
    {"create_park", "delete_park", "create_species", "update_species",
     "delete_species"}

\* C4: create_park, delete_park, create_species, update_species and
\* delete_species keep referential integrity of the link rows: a store whose
\* links all have both owners still has that after any of these requests.
C4_CrudKeepsReferentialIntegrity ==
    [][(last'.op \in CrudRoutes /\ ReferentialIntegrity)
          => ReferentialIntegrity']_vars

\* C5: park_species holds at most one row for each (park, species) pair.
C5_OneLinkPerPair ==
    \A r \in BagToSet(park_species) : CopiesIn(r, park_species) = 1

\* C5 witness: create_species or update_species has run with a park-id list
\* naming a park whose pair with the species already has its row.
C5_Witness ==
    /\ last.op \in {"create_species", "update_species"}
    /\ ParkIdsSent
    /\ \E p \in ParkIdsOfRequest : BagIn(<<p, last.sid>>, park_species)

\* C6: for an existing park Pk, list_species_for_park(Pk) answers with
\* exactly the species that hold a link to Pk.
C6_ListForParkIsLinkedSpecies ==
    (Ran("list_species_for_park") /\ last.pid \in ParkIds)
        => /\ last.status = HTTP_200
           /\ last.body = <<SpeciesOf(last.pid) \cap SpeciesIds>>

\* C7: list_species(type, park_id) answers with exactly the species that
\* match the type filter (when given) and are linked to the park (when given).
C7_ListSpeciesIsIntersection ==
    Ran("list_species")
        => /\ last.status = HTTP_200
           /\ last.body =
                <<{s \in SpeciesIds :
                     /\ last.type = None \/ species[s].type = last.type
                     /\ last.pid = 0 \/ <<last.pid, s>> \in Links}>>

\* C8: a second update_species(S, park_ids = P) right after the first, with
\* nothing in between, adds and removes no link.
C8_UpdateTwiceIsUpdateOnce ==
    [][(last'.op = "update_species" /\ last'.repeat)
          => park_species' = park_species]_vars

\* C8 witness: the same park-list update has just run twice in succession on
\* a species that had links.
C8_Witness ==
    /\ last.op = "update_species"
    /\ last.repeat
    /\ ParksOf(last.sid) # {}
    /\ ParkIdsOfRequest # ParksOf(last.sid)

\* C9: get_species, update_species and delete_species for an id that names
\* no species answer 404 and leave species, links and files as they were.
C9_UnknownSpeciesIsNotFound ==
    [][\A s \in SpeciesIdInputs \ SpeciesIds :
          (last'.op \in {"get_species", "update_species", "delete_species"}
             /\ last'.sid = s)
          => /\ last'.status = HTTP_404
             /\ UNCHANGED <<species, park_species, files>>]_vars

\* C9 witness: a delete for an unknown id was answered 404 while the store
\* holds species, links and a file.
C9_Witness ==
    /\ last.op = "delete_species"
    /\ last.status = HTTP_404
    /\ species # <<>>
    /\ Links # {}
    /\ files # {}

C11_AbsentParkIdsKeepsLinks ==
    [][(last'.op = "update_species" /\ last'.status # HTTP_401
          /\ last'.park_ids = <<>>)
          => park_species' = park_species]_vars

\* C11 witness: an update without park_ids has just changed the type of a
\* species that has links.
C11_Witness ==
    /\ Ran("update_species")
    /\ ~ParkIdsSent
    /\ last.sid \in SpeciesIds
    /\ last.type = "plant"
    /\ species[last.sid].type = "plant"
    /\ ParksOf(last.sid) # {}

\* The tables and the upload directories a request can write.
Store == <<parks, species, park_species, files>>

\* C12: a request to a mutating route whose token is missing, does not
\* decode, has no "sub" or names no enabled user is answered 401 and leaves
\* parks, species, links and files unchanged.
C12_BadTokenIsRejectedUnchanged ==
    [][(last'.op \in ProtectedRoutes
          /\ token' \in {"missing", "undecodable", "no_sub", "unknown_user"})
          => (last'.status = HTTP_401 /\ UNCHANGED Store)]_vars

\* C12 witness: an image delete with the token of an unknown user was
\* answered 401 while the store holds parks, a species with links and the
\* image file of that species.
C12_Witness ==
    /\ last.op = "delete_species_image"
    /\ last.status = HTTP_401
    /\ token = "unknown_user"
    /\ ParkIds # {}
    /\ \E s \in SpeciesIds :
          /\ ParksOf(s) # {}
          /\ StoredFile(SPECIES_DIR, species[s].image_url, s) \in files

\* The parks that the rows of a link table give a species.
ParksIn(table, species_id) ==
    {row[1] : row \in {x \in BagToSet(table) : x[2] = species_id}}

\* C13: each of two interleaved update_species requests on one species
\* writes its own additions and removals, computed from the links it read:
\* when a request ends, the valid ids it asked for and had not read are
\* linked and the ids it had read and did not ask for are not.
C13_InterleavedUpdatesWriteTheirDiff ==
    [][\A r \in DOMAIN inflight :
          r \notin DOMAIN inflight'
          => LET request == inflight[r]
                 added == (request.park_ids \ request.current_ids) \cap ParkIds
                 removed == request.current_ids \ request.park_ids
             IN  /\ added \subseteq ParksIn(park_species', request.sid)
                 /\ removed \cap ParksIn(park_species', request.sid) = {}]_vars

\* C14: create_species is one transaction: when it fails while it adds the
\* links for listed parks that exist, no species row is left behind.
C14_FailedCreateLeavesNoRow ==
    (Ran("create_species") /\ last.status # HTTP_201
       /\ ParkIdsOfRequest \cap ParkIds # {})
        => last.sid \notin SpeciesIds

\* C15: a response that carries a species gives as its park_ids the parks
\* of the link rows stored for that species; get_species of a stored species
\* is such a response.
C15_ResponseParkIdsAreLinks ==
    (Ran("get_species") /\ last.sid \in SpeciesIds)
        => /\ last.status = HTTP_200
           /\ last.body = <<ParksOf(last.sid)>>

\* C16: every stored species has a type in {animal, plant}, whatever fields
\* the bodies of create_species and update_species set, null included.
C16_StoredTypeIsAnimalOrPlant ==
    \A s \in SpeciesIds : species[s].type \in SpeciesTypes

\* C16 witness: an update of a stored species has just sent the type as an
\* explicit null, in a body without park_ids, so its commit was attempted.
C16_Witness ==
    /\ Ran("update_species")
    /\ last.sid \in SpeciesIds
    /\ last.type = None
    /\ ~ParkIdsSent
    /\ last.status = HTTP_500

\* Stored files whose owning record has been deleted.
Orphans(fs) == {f \in fs : f.owner = 0}

\* C17: delete_park and delete_species remove the image files of the record
\* before they delete its row, so a delete leaves no stored file behind that
\* belongs to the deleted record.
C17_DeleteLeavesNoOrphanFile ==
    [][(last'.op \in {"delete_park", "delete_species"}
          /\ last'.status = HTTP_204)
          => Orphans(files') \subseteq Orphans(files)]_vars

\* The stored files that were uploaded for a species.
SpeciesFiles(species_id) ==
    {f \in files : f.dir = SPECIES_DIR /\ f.owner = species_id}

\* C20: a successful upload_species_image replaces the image: image_url
\* names the new stored file and it is the only stored file of the species.
C20_UploadReplacesSpeciesImage ==
    (Ran("upload_species_image") /\ last.status = HTTP_201)
        => SpeciesFiles(last.sid)
             = {StoredFile(SPECIES_DIR, species[last.sid].image_url, last.sid)}

\* The last response is that of a weather route.
WeatherResponse == last.op \in {"get_current_weather", "get_park_weather"}

OwnedIntegrity ==
    \A r \in owned :
        /\ r.park_id \in ParkIds
        /\ r.table = "sightings" => r.species_id \in SpeciesIds

\* C19: creations and deletions of parks and species keep the foreign keys
\* of trails, reviews and sightings valid: a store whose owned rows all name
\* stored owners still has that after any such request.
C19_OwnedRowsKeepTheirOwners ==
    [][(last'.op \in {"create_park", "delete_park", "create_species",
                      "delete_species"}
          /\ OwnedIntegrity)
          => OwnedIntegrity']_vars

\* C21: an upload_species_image that fails with 400 or 500 leaves the
\* species as it was: image_url is unchanged and the file it names is still
\* stored.
C21_FailedUploadKeepsImage ==
    [][(last'.op = "upload_species_image"
          /\ last'.status \in {HTTP_400, HTTP_500}
          /\ last'.sid \in SpeciesIds)
          => /\ species'[last'.sid].image_url = species[last'.sid].image_url
             /\ \A f \in files :
                   (f.dir = SPECIES_DIR
                      /\ f.name = species[last'.sid].image_url)
                   => f \in files']_vars

\* The names of the stored files that were uploaded for a park.
ParkFileNames(park_id) ==
    {f.name : f \in {g \in files : g.dir = PARKS_DIR /\ g.owner = park_id}}

\* C22: after a successful upload_park_image the persisted images list of
\* the park names exactly the files stored for the park, the new one
\* included.
C22_UploadedImageIsListed ==
    (Ran("upload_park_image") /\ last.status = HTTP_201)
        => ImagesOf(last.pid) = ParkFileNames(last.pid)

\* The names a table of parks lists for a park.
ImagesIn(table, park_id) ==
    IF table[park_id].images = <<>> THEN {}
    ELSE {table[park_id].images[1][i] : i \in DOMAIN table[park_id].images[1]}

\* C23: delete_park_image answers 404 and changes nothing for an unknown
\* park or a name the park does not list; else it removes that one name from
\* the list of the park and deletes that one file, and leaves the other
\* images, the other parks and everything else as they were.
C23_DeleteParkImageRemovesOne ==
    [][(last'.op = "delete_park_image" /\ last'.status # HTTP_401)
          => IF last'.status = HTTP_404
             THEN UNCHANGED Store
             ELSE /\ last'.status = HTTP_204
                  /\ \E n \in ImagesOf(last'.pid) :
                        /\ ImagesIn(parks', last'.pid) = ImagesOf(last'.pid) \ {n}
                        /\ files' = delete_file(files, n, PARKS_DIR)
                  /\ \A p \in ParkIds \ {last'.pid} : parks'[p] = parks[p]
                  /\ UNCHANGED <<species, park_species>>]_vars

\* C24: asked one after the other in the same store, list_species_for_park(X)
\* and list_species(park_id = X) answer with the same set of species when
\* park X exists; when it does not, the first answers 404 and the second
\* answers with an empty list.
C24_ParkFilterMatchesParkRoute ==
    [][(/\ last.op = "list_species_for_park"
        /\ last'.op = "list_species"
        /\ last'.type = None
        /\ last'.pid = last.pid)
          => IF last.pid \in ParkIds
             THEN /\ last.status = HTTP_200
                  /\ last'.status = HTTP_200
                  /\ last'.body = last.body
             ELSE /\ last.status = HTTP_404
                  /\ last'.status = HTTP_200
                  /\ last'.body = <<{}>>]_vars

\* C25: update_species of a stored species with park_ids present but empty
\* (an empty list or null) leaves the species without any link, and the
\* species row remains.
C25_EmptyParkIdsClearsLinks ==
    (Ran("update_species") /\ last.sid \in SpeciesIds /\ ParkIdsSent
       /\ ParkIdsOfRequest = {})
        => ParksOf(last.sid) = {}

C27_RepeatedParkIdGivesOneLink ==
    [][\A r \in DOMAIN inflight :
          (/\ r \notin DOMAIN inflight'
           /\ inflight[r].park_ids # <<>>
           /\ \E i, j \in DOMAIN inflight[r].park_ids[1] :
                 /\ i # j
                 /\ inflight[r].park_ids[1][i] = inflight[r].park_ids[1][j]
                 /\ inflight[r].park_ids[1][i] \in ParkIds
           /\ inflight[r].op = "update_species"
                 => inflight[r].sid \in SpeciesIds)
          => /\ last'.status \in {HTTP_200, HTTP_201}
             /\ \A p \in ListToSet(inflight[r].park_ids[1]) \cap ParkIds :
                   CopiesIn(<<p, last'.sid>>, park_species') = 1]_vars

\* C28: plan_multi_park_route answers 400 for fewer than two ids and 404
\* for a list that names an unknown park; else it returns one point per
\* requested id in request order, with order the 1-based position,
\* total_parks the length of the request, the first point as origin, the last
\* as destination and the points between them as waypoints in order.
C28_RouteFollowsTheRequest ==
    last.op = "plan_multi_park_route"
        => LET request == last.park_ids[1]
               n == Len(request)
           IN  IF n < 2 THEN last.status = HTTP_400
               ELSE IF \E k \in 1..n : request[k] \notin ParkIds
               THEN last.status = HTTP_404
               ELSE /\ last.status = HTTP_200
                    /\ Len(last.body[1].route_points) = n
                    /\ \A k \in 1..n :
                          /\ last.body[1].route_points[k].order = k
                          /\ last.body[1].route_points[k].park_id = request[k]
                    /\ last.body[1].total_parks = n
                    /\ last.body[1].origin = request[1]
                    /\ last.body[1].destination = request[n]
                    /\ last.body[1].waypoints
                         = [k \in 1..(n - 2) |-> request[k + 1]]

\* C28 witness: a route over three stored parks' ids, with a waypoint
\* between origin and destination, has just been planned.
C28_Witness ==
    /\ last.op = "plan_multi_park_route"
    /\ last.status = HTTP_200
    /\ Len(last.park_ids[1]) = MaxRouteLen
    /\ last.body[1].origin # last.body[1].destination
    /\ Len(last.body[1].waypoints) >= 1

\* C29: get_park_forecast answers 400 for days below 1 or above 5, for a
\* stored and for an unknown park alike and without a call of the provider;
\* a forecast it answers has at most `days` entries, no two of one calendar
\* date, each taken from a 12:00:00 slot of the provider's list, in the order
\* of that list.
C29_ForecastIsNoonPerDate ==
    last.op = "get_park_forecast"
        => LET days == last.body[1].days
               list == last.body[1].list
               forecasts == last.body[1].forecasts
           IN  IF days < MIN_FORECAST_DAYS \/ days > MAX_FORECAST_DAYS
               THEN last.status = HTTP_400 /\ last.attempts = 0
               ELSE /\ last.status # HTTP_400
                    /\ last.status = HTTP_200 =>
                         /\ Len(forecasts) <= days
                         /\ \A j, k \in DOMAIN forecasts :
                               forecasts[j].date = forecasts[k].date => j = k
                         /\ \E slot \in [DOMAIN forecasts -> DOMAIN list] :
                               /\ \A j, k \in DOMAIN forecasts :
                                     j < k => slot[j] < slot[k]
                               /\ \A k \in DOMAIN forecasts :
                                     /\ list[slot[k]].dt_txt.hour = "12:00:00"
                                     /\ list[slot[k]].dt_txt.date
                                          = forecasts[k].date

\* C29 witness: a forecast of `days` entries has been answered from a list
\* that held a slot off noon, a second noon slot of a date already taken, or
\* a noon slot beyond the days asked for.
C29_Witness ==
    /\ last.op = "get_park_forecast"
    /\ last.status = HTTP_200
    /\ Len(last.body[1].forecasts) = last.body[1].days
    /\ \E k \in DOMAIN last.body[1].list :
          last.body[1].list[k].dt_txt.hour # "12:00:00"
    /\ \E k \in DOMAIN last.body[1].list :
          /\ last.body[1].list[k].dt_txt.hour = "12:00:00"
          /\ \A j \in DOMAIN last.body[1].forecasts :
                last.body[1].forecasts[j].date
                    # last.body[1].list[k].dt_txt.date

====
